---- MODULE Spec2Model ----
(***************************************************************************)
(* Component-name resolution of the REANA developer helper script           *)
(* (reana/cli.py): shorten_component_name, find_standard_component_name     *)
(* and select_components.                                                   *)
(*                                                                          *)
(* A Python str is a sequence of one-character strings, so that split('-'), *)
(* part[0], += and format are computed on the characters. A Python set is   *)
(* a bag in which every element has count 1 (set.add leaves an element      *)
(* that is present alone); the list made of it keeps the counts and forgets *)
(* the order, which Python leaves to the hash seed.                         *)
(***************************************************************************)
EXTENDS Integers, Sequences, FiniteSets, Bags, TLC

VARIABLES
    pc,          \* position of the running function
    cwd,         \* os.getcwd() of the process
    components,  \* select_components: the argument
    idx,         \* select_components: index of the token the for loop is at
    output,      \* select_components: the local set `output`
    result,      \* select_components: the returned list
    raised,      \* the exception that left the running function, or "None"
    stdout,      \* the lines click.secho has written
    name_in,     \* shorten_component_name: the argument
    short_out,   \* shorten_component_name: what the call gave
    short_in,    \* find_standard_component_name: the argument
    found,       \* find_standard_component_name: what the call gave
    command,     \* the command click dispatches, "none" outside a command
    opt_component, \* the values of -c on the command line, <<>> when omitted
    branch,      \* git-checkout: the (component, pull request) pairs of -b
    fetch,       \* git-checkout: the --fetch flag
    pair_idx,    \* git-checkout: index of the pair the for loop is at
    todo,        \* the component list a command iterates
    comp_idx,    \* index into todo
    cmd_idx,     \* index into the command list of the component
    ran,         \* the subprocess.run calls made, in order
    start_dir,   \* the working directory the process was started in
    order        \* the iteration order of sets in this process (hash seed)

vars == <<pc, cwd, components, idx, output, result, raised, stdout, name_in, short_out,
          short_in, found, command, opt_component, branch, fetch, pair_idx, todo,
          comp_idx, cmd_idx, ran, start_dir, order>>

cli_vars == <<command, opt_component, branch, fetch, pair_idx, todo, comp_idx, cmd_idx,
              ran, start_dir, order>>

\* ---------------------------------------------------------------- bounds

\* longest token sequence given to select_components
MaxTokens == 3

\* longest string over {a, b, -} given to shorten_component_name
MaxLen == 4

\* most values of -c given to a command
MaxOpts == 1

\* most -b pairs given to git-checkout
MaxPairs == 2

\* the set iteration orders tried: ascending and descending, each rotated
\* by 0..MaxShift steps of ShiftStep
MaxShift == 1

\* ------------------------------------------------------------- constants

REPO_LIST_ALL ==
    << <<"r", "e", "a", "n", "a">>,  \* reana
       <<"r", "e", "a", "n", "a", "-", "c", "l", "i", "e", "n", "t">>,  \* reana-client
       <<"r", "e", "a", "n", "a", "-", "c", "l", "u", "s", "t", "e", "r">>,  \* reana-cluster
       <<"r", "e", "a", "n", "a", "-", "c", "o", "m", "m", "o", "n", "s">>,  \* reana-commons
       <<"r", "e", "a", "n", "a", "-", "d", "e", "m", "o", "-", "a", "l", "i", "c", "e", "-", "l", "e", "g", "o", "-", "t", "r", "a", "i", "n", "-", "t", "e", "s", "t", "-", "r", "u", "n">>,  \* reana-demo-alice-lego-train-test-run
       <<"r", "e", "a", "n", "a", "-", "d", "e", "m", "o", "-", "a", "t", "l", "a", "s", "-", "r", "e", "c", "a", "s", "t">>,  \* reana-demo-atlas-recast
       <<"r", "e", "a", "n", "a", "-", "d", "e", "m", "o", "-", "b", "s", "m", "-", "s", "e", "a", "r", "c", "h">>,  \* reana-demo-bsm-search
       <<"r", "e", "a", "n", "a", "-", "d", "e", "m", "o", "-", "c", "m", "s", "-", "h", "4", "l">>,  \* reana-demo-cms-h4l
       <<"r", "e", "a", "n", "a", "-", "d", "e", "m", "o", "-", "h", "e", "l", "l", "o", "w", "o", "r", "l", "d">>,  \* reana-demo-helloworld
       <<"r", "e", "a", "n", "a", "-", "d", "e", "m", "o", "-", "l", "h", "c", "b", "-", "d", "2", "p", "i", "m", "u", "m", "u">>,  \* reana-demo-lhcb-d2pimumu
       <<"r", "e", "a", "n", "a", "-", "d", "e", "m", "o", "-", "r", "o", "o", "t", "6", "-", "r", "o", "o", "f", "i", "t">>,  \* reana-demo-root6-roofit
       <<"r", "e", "a", "n", "a", "-", "d", "e", "m", "o", "-", "w", "o", "r", "l", "d", "p", "o", "p", "u", "l", "a", "t", "i", "o", "n">>,  \* reana-demo-worldpopulation
       <<"r", "e", "a", "n", "a", "-", "e", "n", "v", "-", "a", "l", "i", "p", "h", "y", "s", "i", "c", "s">>,  \* reana-env-aliphysics
       <<"r", "e", "a", "n", "a", "-", "e", "n", "v", "-", "j", "u", "p", "y", "t", "e", "r">>,  \* reana-env-jupyter
       <<"r", "e", "a", "n", "a", "-", "e", "n", "v", "-", "r", "o", "o", "t", "6">>,  \* reana-env-root6
       <<"r", "e", "a", "n", "a", "-", "j", "o", "b", "-", "c", "o", "n", "t", "r", "o", "l", "l", "e", "r">>,  \* reana-job-controller
       <<"r", "e", "a", "n", "a", "-", "m", "e", "s", "s", "a", "g", "e", "-", "b", "r", "o", "k", "e", "r">>,  \* reana-message-broker
       <<"r", "e", "a", "n", "a", "-", "s", "e", "r", "v", "e", "r">>,  \* reana-server
       <<"r", "e", "a", "n", "a", "-", "u", "i">>,  \* reana-ui
       <<"r", "e", "a", "n", "a", "-", "w", "o", "r", "k", "f", "l", "o", "w", "-", "c", "o", "m", "m", "o", "n", "s">>,  \* reana-workflow-commons
       <<"r", "e", "a", "n", "a", "-", "w", "o", "r", "k", "f", "l", "o", "w", "-", "c", "o", "n", "t", "r", "o", "l", "l", "e", "r">>,  \* reana-workflow-controller
       <<"r", "e", "a", "n", "a", "-", "w", "o", "r", "k", "f", "l", "o", "w", "-", "e", "n", "g", "i", "n", "e", "-", "c", "w", "l">>,  \* reana-workflow-engine-cwl
       <<"r", "e", "a", "n", "a", "-", "w", "o", "r", "k", "f", "l", "o", "w", "-", "e", "n", "g", "i", "n", "e", "-", "s", "e", "r", "i", "a", "l">>,  \* reana-workflow-engine-serial
       <<"r", "e", "a", "n", "a", "-", "w", "o", "r", "k", "f", "l", "o", "w", "-", "e", "n", "g", "i", "n", "e", "-", "y", "a", "d", "a", "g", "e">>,  \* reana-workflow-engine-yadage
       <<"r", "e", "a", "n", "a", "-", "w", "o", "r", "k", "f", "l", "o", "w", "-", "m", "o", "n", "i", "t", "o", "r">>,  \* reana-workflow-monitor
       <<"r", "e", "a", "n", "a", ".", "i", "o">> >>  \* reana.io

REPO_LIST_CLUSTER ==
    << <<"r", "e", "a", "n", "a", "-", "c", "o", "m", "m", "o", "n", "s">>,  \* reana-commons
       <<"r", "e", "a", "n", "a", "-", "j", "o", "b", "-", "c", "o", "n", "t", "r", "o", "l", "l", "e", "r">>,  \* reana-job-controller
       <<"r", "e", "a", "n", "a", "-", "m", "e", "s", "s", "a", "g", "e", "-", "b", "r", "o", "k", "e", "r">>,  \* reana-message-broker
       <<"r", "e", "a", "n", "a", "-", "s", "e", "r", "v", "e", "r">>,  \* reana-server
       <<"r", "e", "a", "n", "a", "-", "w", "o", "r", "k", "f", "l", "o", "w", "-", "c", "o", "m", "m", "o", "n", "s">>,  \* reana-workflow-commons
       <<"r", "e", "a", "n", "a", "-", "w", "o", "r", "k", "f", "l", "o", "w", "-", "c", "o", "n", "t", "r", "o", "l", "l", "e", "r">>,  \* reana-workflow-controller
       <<"r", "e", "a", "n", "a", "-", "w", "o", "r", "k", "f", "l", "o", "w", "-", "e", "n", "g", "i", "n", "e", "-", "c", "w", "l">>,  \* reana-workflow-engine-cwl
       <<"r", "e", "a", "n", "a", "-", "w", "o", "r", "k", "f", "l", "o", "w", "-", "e", "n", "g", "i", "n", "e", "-", "s", "e", "r", "i", "a", "l">>,  \* reana-workflow-engine-serial
       <<"r", "e", "a", "n", "a", "-", "w", "o", "r", "k", "f", "l", "o", "w", "-", "e", "n", "g", "i", "n", "e", "-", "y", "a", "d", "a", "g", "e">>,  \* reana-workflow-engine-yadage
       <<"r", "e", "a", "n", "a", "-", "w", "o", "r", "k", "f", "l", "o", "w", "-", "m", "o", "n", "i", "t", "o", "r">> >>  \* reana-workflow-monitor

KW_ALL == <<"A", "L", "L">>  \* ALL

KW_CLUSTER == <<"C", "L", "U", "S", "T", "E", "R">>  \* CLUSTER

KW_DOT == <<".">>  \* .

MSG_IGNORING == <<"I", "g", "n", "o", "r", "i", "n", "g", " ", "u", "n", "k", "n", "o", "w", "n", " ", "c", "o", "m", "p", "o", "n", "e", "n", "t", " ">>  \* Ignoring unknown component 

MSG_UNMAPPED == <<"C", "o", "m", "p", "o", "n", "e", "n", "t", " ", "n", "a", "m", "e", " ", "s", "h", "o", "r", "t", "_", "c", "o", "m", "p", "o", "n", "e", "n", "t", "_", "n", "a", "m", "e", " ", "c", "a", "n", "n", "o", "t", " ", "b", "e", " ", "u", "n", "i", "q", "u", "e", "l", "y", " ", "m", "a", "p", "p", "e", "d", ".">>  \* Component name short_component_name cannot be uniquely mapped.

TOK_reana == <<"r", "e", "a", "n", "a">>  \* reana

TOK_rjc == <<"r", "e", "a", "n", "a", "-", "j", "o", "b", "-", "c", "o", "n", "t", "r", "o", "l", "l", "e", "r">>  \* reana-job-controller

TOK_r_j_controller == <<"r", "-", "j", "-", "c", "o", "n", "t", "r", "o", "l", "l", "e", "r">>  \* r-j-controller

TOK_nonsense == <<"n", "o", "n", "s", "e", "n", "s", "e">>  \* nonsense

TOK_all == <<"a", "l", "l">>  \* all

TOK_cluster == <<"c", "l", "u", "s", "t", "e", "r">>  \* cluster

DIR_component == <<"/", "s", "r", "c", "/", "r", "e", "a", "n", "a", "-", "s", "e", "r", "v", "e", "r">>  \* /src/reana-server

DIR_other == <<"/", "t", "m", "p">>  \* /tmp

SRCDIR == <<"/", "s", "r", "c">>  \* /src

SEP == <<"/">>  \* /

CMD_FETCH == <<"g", "i", "t", " ", "f", "e", "t", "c", "h", " ", "u", "p", "s", "t", "r", "e", "a", "m">>  \* git fetch upstream

CMD_CHECKOUT_MASTER == <<"g", "i", "t", " ", "c", "h", "e", "c", "k", "o", "u", "t", " ", "m", "a", "s", "t", "e", "r">>  \* git checkout master

CMD_MERGE == <<"g", "i", "t", " ", "m", "e", "r", "g", "e", " ", "-", "-", "f", "f", "-", "o", "n", "l", "y", " ", "u", "p", "s", "t", "r", "e", "a", "m", "/", "m", "a", "s", "t", "e", "r">>  \* git merge --ff-only upstream/master

CMD_PUSH == <<"g", "i", "t", " ", "p", "u", "s", "h", " ", "o", "r", "i", "g", "i", "n", " ", "m", "a", "s", "t", "e", "r">>  \* git push origin master

CMD_CHECKOUT_BACK == <<"g", "i", "t", " ", "c", "h", "e", "c", "k", "o", "u", "t", " ", "-">>  \* git checkout -

CMD_DIFF == <<"g", "i", "t", " ", "d", "i", "f", "f", " ", "m", "a", "s", "t", "e", "r">>  \* git diff master

CMD_CHECKOUT_PR == <<"g", "i", "t", " ", "c", "h", "e", "c", "k", "o", "u", "t", " ", "-", "b", " ", "p", "r", "-">>  \* git checkout -b pr-

CMD_CHECKOUT_UPSTREAM == <<" ", "u", "p", "s", "t", "r", "e", "a", "m", "/", "p", "r", "/">>  \*  upstream/pr/

MSG_IGNORING_COMPONENT == <<"I", "g", "n", "o", "r", "i", "n", "g", " ", "u", "n", "k", "n", "o", "w", "n", " ", "c", "o", "m", "p", "o", "n", "e", "n", "t", ".">>  \* Ignoring unknown component.

PR_72 == <<"7", "2">>  \* 72

\* ------------------------------------------------------------- helpers

Range(s) == {s[i] : i \in 1..Len(s)}

\* what a call gives: a value, or an exception of kind exc with message msg
Ok(v) == [exc |-> "None", val |-> v, msg |-> <<>>]

Raise(kind, m) == [exc |-> kind, val |-> <<>>, msg |-> m]

\* str.split('-'): the parts between the hyphens, empty parts kept
RECURSIVE split(_)
split(s) ==
    IF \A i \in 1..Len(s) : s[i] # "-"
    THEN <<s>>
    ELSE LET k == CHOOSE i \in 1..Len(s) : s[i] = "-" /\ \A j \in 1..(i-1) : s[j] # "-"
         IN  <<SubSeq(s, 1, k-1)>> \o split(SubSeq(s, k+1, Len(s)))

\* the for loop of shorten_component_name over parts[:-1], from part i on;
\* part[0] of an empty part raises IndexError
RECURSIVE shorten_loop(_, _, _)
shorten_loop(parts, i, short_name) ==
    IF i > Len(parts) - 1
    THEN Ok(short_name \o parts[Len(parts)])
    ELSE IF Len(parts[i]) = 0
         THEN Raise("IndexError", <<>>)
         ELSE shorten_loop(parts, i + 1, short_name \o <<parts[i][1], "-">>)

\* the loop of shorten_component_name running over every part, the last
\* part cut to its first character like the others
RECURSIVE shorten_loop_all_parts(_, _, _)
shorten_loop_all_parts(parts, i, short_name) ==
    IF i > Len(parts)
    THEN Ok(short_name)
    ELSE IF Len(parts[i]) = 0
         THEN Raise("IndexError", <<>>)
         ELSE shorten_loop_all_parts(parts, i + 1,
                  short_name \o (IF i < Len(parts) THEN <<parts[i][1], "-">> ELSE <<parts[i][1]>>))

shorten_component_name_all_parts(component) ==
    shorten_loop_all_parts(split(component), 1, <<>>)

shorten_component_name(component) ==
    shorten_loop(split(component), 1, <<>>)

\* [shorten_component_name(name) for name in REPO_LIST_ALL]
short_names_of_all ==
    [i \in 1..Len(REPO_LIST_ALL) |-> shorten_component_name(REPO_LIST_ALL[i])]

\* find_standard_component_name comparing the standard name itself, the
\* shortening forgotten
find_standard_component_name_unshortened(short_component_name) ==
    LET match(c) == c = short_component_name
        out == SelectSeq(REPO_LIST_ALL, match)
    IN  IF Len(out) = 1 THEN Ok(out[1]) ELSE Raise("Exception", MSG_UNMAPPED)

\* find_standard_component_name settling for the first match, and for the
\* name as given when nothing matches
find_standard_component_name_lenient(short_component_name) ==
    LET match(c) == shorten_component_name(c).val = short_component_name
        out == SelectSeq(REPO_LIST_ALL, match)
    IN  IF Len(out) >= 1 THEN Ok(out[1]) ELSE Ok(short_component_name)

find_standard_component_name(short_component_name) ==
    IF \E i \in 1..Len(REPO_LIST_ALL) : short_names_of_all[i].exc # "None"
    THEN LET k == CHOOSE i \in 1..Len(REPO_LIST_ALL) :
                      /\ short_names_of_all[i].exc # "None"
                      /\ \A j \in 1..(i-1) : short_names_of_all[j].exc = "None"
         IN  short_names_of_all[k]
    ELSE LET match(c) == shorten_component_name(c).val = short_component_name
             out == SelectSeq(REPO_LIST_ALL, match)
         IN  IF Len(out) = 1 THEN Ok(out[1]) ELSE Raise("Exception", MSG_UNMAPPED)

\* os.path.basename: what follows the last slash
RECURSIVE basename(_)
basename(p) ==
    IF \A i \in 1..Len(p) : p[i] # "/"
    THEN p
    ELSE LET k == CHOOSE i \in 1..Len(p) : p[i] = "/" /\ \A j \in 1..(i-1) : p[j] # "/"
         IN  basename(SubSeq(p, k+1, Len(p)))

\* list.append in place of set.add: an element present is added again
set_add_append(s, x) == s (+) SetToBag({x})

\* set.add
set_add(s, x) == IF BagIn(x, s) THEN s ELSE s (+) SetToBag({x})

\* the loop stopping one entry short of the end of the list
RECURSIVE add_each_but_last(_, _, _)
add_each_but_last(s, repos, i) ==
    IF i >= Len(repos) THEN s ELSE add_each_but_last(set_add(s, repos[i]), repos, i + 1)

\* for repo in repos: output.add(repo)
RECURSIVE add_each(_, _, _)
add_each(s, repos, i) ==
    IF i > Len(repos) THEN s ELSE add_each(set_add(s, repos[i]), repos, i + 1)

\* the two format arguments in the wrong order
display_message_swapped(msg, component) ==
    Append(stdout, <<"[">> \o msg \o <<"]", " ">> \o component)

\* click.secho('[{0}] {1}'.format(component, msg)): stdout after the line
display_message(msg, component) ==
    Append(stdout, <<"[">> \o component \o <<"]", " ">> \o msg)

\* no call of find_standard_component_name of its own is under way
FindIdle == short_in = <<>> /\ found = Ok(<<>>)

\* no command is running: the function is called on its own
CliIdle ==
    /\ command = "none"
    /\ opt_component = <<>>
    /\ branch = <<>>
    /\ fetch = FALSE
    /\ pair_idx = 0
    /\ todo = <<>>
    /\ comp_idx = 0
    /\ cmd_idx = 0
    /\ ran = <<>>
    /\ start_dir = cwd
    /\ order = [desc |-> FALSE, shift |-> 0]

\* ---------------------------------------------------- select_components

select_unchanged ==
    UNCHANGED <<cwd, components, name_in, short_out, short_in, found, cli_vars>>

\* lines 267-269: the short names of REPO_LIST_ALL and the empty set
SelectEnter ==
    /\ pc = "select:enter"
    /\ IF \E i \in 1..Len(REPO_LIST_ALL) : short_names_of_all[i].exc # "None"
       THEN /\ pc' = "raised"
            /\ raised' = "IndexError"
            /\ UNCHANGED <<idx, output>>
       ELSE /\ pc' = "select:loop"
            /\ idx' = 1
            /\ output' = EmptyBag
            /\ UNCHANGED raised
    /\ UNCHANGED <<result, stdout>>
    /\ select_unchanged

short_component_names == [i \in 1..Len(REPO_LIST_ALL) |-> short_names_of_all[i].val]

AtToken == pc = "select:loop" /\ idx <= Len(components)

Advance ==
    /\ pc' = "select:loop"
    /\ idx' = idx + 1
    /\ UNCHANGED <<result, raised>>
    /\ select_unchanged

\* lines 271-273
StepALL ==
    /\ AtToken
    /\ components[idx] = KW_ALL
    /\ output' = add_each(output, REPO_LIST_ALL, 1)
    /\ UNCHANGED stdout
    /\ Advance

\* the CLUSTER branch assigning the set instead of adding to it
StepCLUSTER_assign ==
    /\ AtToken
    /\ components[idx] # KW_ALL
    /\ components[idx] = KW_CLUSTER
    /\ output' = add_each(EmptyBag, REPO_LIST_CLUSTER, 1)
    /\ UNCHANGED stdout
    /\ Advance

\* lines 274-276
StepCLUSTER ==
    /\ AtToken
    /\ components[idx] # KW_ALL
    /\ components[idx] = KW_CLUSTER
    /\ output' = add_each(output, REPO_LIST_CLUSTER, 1)
    /\ UNCHANGED stdout
    /\ Advance

\* lines 277-279
StepDot ==
    /\ AtToken
    /\ components[idx] \notin {KW_ALL, KW_CLUSTER}
    /\ components[idx] = KW_DOT
    /\ output' = set_add(output, basename(cwd))
    /\ UNCHANGED stdout
    /\ Advance

\* a standard name given after a group keyword taken as covered by it
StepName_skips_after_group ==
    /\ AtToken
    /\ components[idx] \notin {KW_ALL, KW_CLUSTER, KW_DOT}
    /\ components[idx] \in Range(REPO_LIST_ALL)
    /\ output' = IF output = EmptyBag THEN set_add(output, components[idx]) ELSE output
    /\ UNCHANGED stdout
    /\ Advance

\* lines 280-281
StepName ==
    /\ AtToken
    /\ components[idx] \notin {KW_ALL, KW_CLUSTER, KW_DOT}
    /\ components[idx] \in Range(REPO_LIST_ALL)
    /\ output' = set_add(output, components[idx])
    /\ UNCHANGED stdout
    /\ Advance

\* the short name itself added, not the standard name found for it
StepShort_adds_token ==
    /\ AtToken
    /\ components[idx] \notin {KW_ALL, KW_CLUSTER, KW_DOT}
    /\ components[idx] \notin Range(REPO_LIST_ALL)
    /\ components[idx] \in Range(short_component_names)
    /\ output' = set_add(output, components[idx])
    /\ UNCHANGED stdout
    /\ Advance

\* lines 282-284: find_standard_component_name may raise
StepShort ==
    /\ AtToken
    /\ components[idx] \notin {KW_ALL, KW_CLUSTER, KW_DOT}
    /\ components[idx] \notin Range(REPO_LIST_ALL)
    /\ components[idx] \in Range(short_component_names)
    /\ LET component_standard_name == find_standard_component_name(components[idx])
       IN  IF component_standard_name.exc # "None"
           THEN /\ pc' = "raised"
                /\ raised' = component_standard_name.exc
                /\ UNCHANGED <<idx, output, result, stdout>>
                /\ select_unchanged
           ELSE /\ output' = set_add(output, component_standard_name.val)
                /\ UNCHANGED stdout
                /\ Advance

\* lines 285-287
StepUnknown ==
    /\ AtToken
    /\ components[idx] \notin {KW_ALL, KW_CLUSTER, KW_DOT}
    /\ components[idx] \notin Range(REPO_LIST_ALL)
    /\ components[idx] \notin Range(short_component_names)
    /\ stdout' = display_message(MSG_IGNORING \o components[idx] \o <<".">>, <<>>)
    /\ UNCHANGED output
    /\ Advance

\* line 288: return list(output)
SelectReturn ==
    /\ pc = "select:loop"
    /\ idx > Len(components)
    /\ pc' = "returned"
    /\ result' = output
    /\ UNCHANGED <<idx, output, raised, stdout>>
    /\ select_unchanged

\* the tokens that are mixed freely in the sequences given
MixTokens ==
    {KW_ALL, KW_CLUSTER, KW_DOT, TOK_reana, TOK_rjc, TOK_r_j_controller,
     TOK_nonsense, TOK_all, TOK_cluster}

\* every standard name and every short name, given alone
NameTokens ==
    Range(REPO_LIST_ALL) \cup {shorten_component_name(n).val : n \in Range(REPO_LIST_ALL)}

SelectInputs ==
    UNION {[1..k -> MixTokens] : k \in 0..MaxTokens} \cup {<<t>> : t \in NameTokens}

Dirs == {DIR_component, DIR_other}

SelectInit ==
    /\ pc = "select:enter"
    /\ cwd \in Dirs
    /\ components \in SelectInputs
    /\ idx = 0
    /\ output = EmptyBag
    /\ result = EmptyBag
    /\ raised = "None"
    /\ stdout = <<>>
    /\ name_in = <<>>
    /\ short_out = Ok(<<>>)
    /\ FindIdle
    /\ CliIdle

SelectNext ==
    \/ SelectEnter
    \/ StepALL
    \/ StepCLUSTER
    \/ StepDot
    \/ StepName
    \/ StepShort
    \/ StepUnknown
    \/ SelectReturn

Spec == SelectInit /\ [][SelectNext]_vars

\* ------------------------------------------------ shorten_component_name

Chars == {"a", "b", "-"}

ShortenInputs ==
    UNION {[1..k -> Chars] : k \in 0..MaxLen} \cup Range(REPO_LIST_ALL)

\* one call of shorten_component_name(name_in)
ShortenCall ==
    /\ pc = "shorten:enter"
    /\ short_out' = shorten_component_name(name_in)
    /\ pc' = IF short_out'.exc = "None" THEN "returned" ELSE "raised"
    /\ raised' = short_out'.exc
    /\ UNCHANGED <<cwd, components, idx, output, result, stdout, name_in, short_in, found, cli_vars>>

ShortenInit ==
    /\ pc = "shorten:enter"
    /\ cwd = DIR_other
    /\ components = <<>>
    /\ idx = 0
    /\ output = EmptyBag
    /\ result = EmptyBag
    /\ raised = "None"
    /\ stdout = <<>>
    /\ name_in \in ShortenInputs
    /\ short_out = Ok(<<>>)
    /\ FindIdle
    /\ CliIdle

ShortenNext == ShortenCall

SpecShorten == ShortenInit /\ [][ShortenNext]_vars

\* ------------------------------------------ find_standard_component_name

\* the short names of REPO_LIST_ALL, its standard names, and the strings
\* over Chars
FindInputs ==
    {shorten_component_name(n).val : n \in Range(REPO_LIST_ALL)}
        \cup Range(REPO_LIST_ALL) \cup UNION {[1..k -> Chars] : k \in 0..MaxLen}

\* one call of find_standard_component_name(short_in)
FindCall ==
    /\ pc = "find:enter"
    /\ found' = find_standard_component_name(short_in)
    /\ pc' = IF found'.exc = "None" THEN "returned" ELSE "raised"
    /\ raised' = found'.exc
    /\ UNCHANGED <<cwd, components, idx, output, result, stdout, name_in, short_out, short_in, cli_vars>>

FindInit ==
    /\ pc = "find:enter"
    /\ cwd = DIR_other
    /\ components = <<>>
    /\ idx = 0
    /\ output = EmptyBag
    /\ result = EmptyBag
    /\ raised = "None"
    /\ stdout = <<>>
    /\ name_in = <<>>
    /\ short_out = Ok(<<>>)
    /\ short_in \in FindInputs
    /\ found = Ok(<<>>)
    /\ CliIdle

FindNext == FindCall

SpecFind == FindInit /\ [][FindNext]_vars

\* ------------------------------------------------------- the commands

\* get_srcdir(component): the source directory of the component, or the
\* process exits when REANA_SRCDIR is not set
get_srcdir(component) ==
    IF SRCDIR = <<>>
    THEN Raise("SystemExit", <<>>)
    ELSE IF component # <<>> THEN Ok(SRCDIR \o SEP \o component) ELSE Ok(SRCDIR)

\* the places of a set's elements in this process's iteration order o: the
\* place k stands for REPO_LIST_ALL[k], and 0 for the names that are not in
\* REPO_LIST_ALL; the places are run through upwards or downwards, starting
\* o.shift * 13 places on
Place(o, n) ==
    LET size == Len(REPO_LIST_ALL) + 1
        at == IF o.desc THEN size - n ELSE n - 1
    IN  (at + o.shift * 13) % size

\* x as many times as the list holds it
Copies(x, n) == [i \in 1..n |-> x]

\* the elements of the set of names others, one after the other
RECURSIVE list_others(_, _)
list_others(s, others) ==
    IF others = {}
    THEN <<>>
    ELSE LET x == CHOOSE x \in others : TRUE
         IN  Copies(x, CopiesIn(x, s)) \o list_others(s, others \ {x})

\* the elements of s from the n-th place of the order o on
RECURSIVE list_from(_, _, _)
list_from(s, o, n) ==
    IF n > Len(REPO_LIST_ALL) + 1
    THEN <<>>
    ELSE LET k == Place(o, n)
             here == IF k = 0
                     THEN list_others(s, BagToSet(s) \ Range(REPO_LIST_ALL))
                     ELSE Copies(REPO_LIST_ALL[k], CopiesIn(REPO_LIST_ALL[k], s))
         IN  here \o list_from(s, o, n + 1)

\* list(s): the elements of the set s in the order o of this process
list_of(s, o) == list_from(s, o, 1)

\* the commands whose body is: for component in select_components(component):
\* for cmd in [...]: run_command(cmd, component)
ComponentCommands == {"git-fetch", "git-upgrade", "git-diff", "git-push"}

Commands == ComponentCommands \cup {"git-checkout"}

\* the options click declares for the command
Options(c) == IF c = "git-checkout" THEN {"branch", "fetch"} ELSE {"component"}

\* the parameters of the function the command calls
Params(c) ==
    CASE c = "git-checkout" -> {"branch", "fetch"}
      [] c = "git-push" -> {"full", "component"}
      [] OTHER -> {"component"}

\* the commands run for one component
CmdList ==
    CASE command = "git-fetch" -> <<CMD_FETCH>>
      [] command = "git-upgrade" ->
             <<CMD_FETCH, CMD_CHECKOUT_MASTER, CMD_MERGE, CMD_PUSH, CMD_CHECKOUT_BACK>>
      [] command = "git-diff" -> <<CMD_DIFF>>
      [] command = "git-push" -> <<CMD_PUSH>>
      [] command = "git-checkout" ->
             LET pull_request == branch[pair_idx][2]
             IN  (IF fetch THEN <<CMD_FETCH>> ELSE <<>>)
                     \o <<CMD_CHECKOUT_PR \o pull_request \o CMD_CHECKOUT_UPSTREAM \o pull_request>>
      [] OTHER -> <<>>

\* run_command not looking at the status of the subprocess (check=False)
run_command_unchecked(cmd, component, status, next_pc) ==
    LET dir == IF component # <<>> THEN get_srcdir(component) ELSE Ok(cwd)
    IN  /\ stdout' = Append(stdout, <<"[">> \o component \o <<"]", " ">> \o cmd)
        /\ cwd' = dir.val
        /\ ran' = Append(ran, [component |-> component, cmd |-> cmd,
                               dir |-> dir.val, status |-> status])
        /\ pc' = next_pc

\* run_command(cmd, component): the line written, the chdir into the source
\* directory, the subprocess ending with status; a status that is not 0
\* ends the process, otherwise control goes on at next_pc
run_command(cmd, component, status, next_pc) ==
    LET dir == IF component # <<>> THEN get_srcdir(component) ELSE Ok(cwd)
    IN  /\ stdout' = Append(stdout, <<"[">> \o component \o <<"]", " ">> \o cmd)
        /\ IF dir.exc # "None"
           THEN /\ pc' = "exited"
                /\ UNCHANGED <<cwd, ran>>
           ELSE /\ cwd' = dir.val
                /\ ran' = Append(ran, [component |-> component, cmd |-> cmd,
                                       dir |-> dir.val, status |-> status])
                /\ pc' = IF status # 0 THEN "exited" ELSE next_pc

\* click calls a function whose signature has a parameter no option gives
InvokeTypeError ==
    /\ pc = "cli:invoke"
    /\ ~(Params(command) \subseteq Options(command))
    /\ pc' = "raised"
    /\ raised' = "TypeError"
    /\ UNCHANGED <<cwd, components, idx, output, result, stdout, name_in, short_out,
                   short_in, found, cli_vars>>

\* a command with -c: select_components(component), with ['CLUSTER'] for
\* component when -c was not given
InvokeComponent ==
    /\ pc = "cli:invoke"
    /\ command \in ComponentCommands
    /\ Params(command) \subseteq Options(command)
    /\ components' = IF opt_component = <<>> THEN <<KW_CLUSTER>> ELSE opt_component
    /\ pc' = "select:enter"
    /\ UNCHANGED <<cwd, idx, output, result, raised, stdout, name_in, short_out,
                   short_in, found, cli_vars>>

\* the for loop over the list select_components returned begins
CmdBegin ==
    /\ pc = "returned"
    /\ command \in ComponentCommands
    /\ todo' = list_of(result, order)
    /\ comp_idx' = 1
    /\ cmd_idx' = 1
    /\ pc' = "cmd:loop"
    /\ UNCHANGED <<cwd, components, idx, output, result, raised, stdout, name_in, short_out,
                   short_in, found, command, opt_component, branch, fetch, pair_idx, ran,
                   start_dir, order>>

\* one run_command(cmd, component) of the inner loop
CmdRun ==
    /\ pc = "cmd:loop"
    /\ comp_idx <= Len(todo)
    /\ \E status \in {0, 1} :
           run_command(CmdList[cmd_idx], todo[comp_idx], status, "cmd:loop")
    /\ IF cmd_idx < Len(CmdList)
       THEN cmd_idx' = cmd_idx + 1 /\ comp_idx' = comp_idx
       ELSE cmd_idx' = 1 /\ comp_idx' = comp_idx + 1
    /\ UNCHANGED <<components, idx, output, result, raised, name_in, short_out,
                   short_in, found, command, opt_component, branch, fetch, pair_idx, todo,
                   start_dir, order>>

\* the loops of a command with -c are over
CmdDone ==
    /\ pc = "cmd:loop"
    /\ command \in ComponentCommands
    /\ comp_idx > Len(todo)
    /\ pc' = "done"
    /\ UNCHANGED <<cwd, components, idx, output, result, raised, stdout, name_in, short_out,
                   short_in, found, cli_vars>>

\* git-checkout, line 521: the for loop over the pairs begins
InvokeCheckout ==
    /\ pc = "cli:invoke"
    /\ command = "git-checkout"
    /\ Params(command) \subseteq Options(command)
    /\ pair_idx' = 1
    /\ pc' = "checkout:loop"
    /\ UNCHANGED <<cwd, components, idx, output, result, raised, stdout, name_in, short_out,
                   short_in, found, command, opt_component, branch, fetch, todo, comp_idx,
                   cmd_idx, ran, start_dir, order>>

\* git-checkout, lines 522-523: select_components([component, ]) is called
CheckoutSelect ==
    /\ pc = "checkout:loop"
    /\ pair_idx <= Len(branch)
    /\ components' = <<branch[pair_idx][1]>>
    /\ pc' = "select:enter"
    /\ UNCHANGED <<cwd, idx, output, result, raised, stdout, name_in, short_out,
                   short_in, found, cli_vars>>

\* git-checkout, line 523: [0] of an empty list
CheckoutIndexError ==
    /\ pc = "returned"
    /\ command = "git-checkout"
    /\ list_of(result, order) = <<>>
    /\ pc' = "raised"
    /\ raised' = "IndexError"
    /\ UNCHANGED <<cwd, components, idx, output, result, stdout, name_in, short_out,
                   short_in, found, cli_vars>>

\* git-checkout, lines 524-529: the component is in REPO_LIST_ALL
CheckoutKnown ==
    /\ pc = "returned"
    /\ command = "git-checkout"
    /\ list_of(result, order) # <<>>
    /\ list_of(result, order)[1] \in Range(REPO_LIST_ALL)
    /\ todo' = <<list_of(result, order)[1]>>
    /\ comp_idx' = 1
    /\ cmd_idx' = 1
    /\ pc' = "cmd:loop"
    /\ UNCHANGED <<cwd, components, idx, output, result, raised, stdout, name_in, short_out,
                   short_in, found, command, opt_component, branch, fetch, pair_idx, ran,
                   start_dir, order>>

\* git-checkout, lines 530-532: the component is not in REPO_LIST_ALL
CheckoutUnknown ==
    /\ pc = "returned"
    /\ command = "git-checkout"
    /\ list_of(result, order) # <<>>
    /\ list_of(result, order)[1] \notin Range(REPO_LIST_ALL)
    /\ stdout' = display_message(MSG_IGNORING_COMPONENT, list_of(result, order)[1])
    /\ pair_idx' = pair_idx + 1
    /\ pc' = "checkout:loop"
    /\ UNCHANGED <<cwd, components, idx, output, result, raised, name_in, short_out,
                   short_in, found, command, opt_component, branch, fetch, todo, comp_idx,
                   cmd_idx, ran, start_dir, order>>

\* git-checkout: the commands of the pair are done, on to the next pair
CheckoutAdvance ==
    /\ pc = "cmd:loop"
    /\ command = "git-checkout"
    /\ comp_idx > Len(todo)
    /\ pair_idx' = pair_idx + 1
    /\ pc' = "checkout:loop"
    /\ UNCHANGED <<cwd, components, idx, output, result, raised, stdout, name_in, short_out,
                   short_in, found, command, opt_component, branch, fetch, todo, comp_idx,
                   cmd_idx, ran, start_dir, order>>

\* git-checkout: the loop over the pairs is over
CheckoutDone ==
    /\ pc = "checkout:loop"
    /\ pair_idx > Len(branch)
    /\ pc' = "done"
    /\ UNCHANGED <<cwd, components, idx, output, result, raised, stdout, name_in, short_out,
                   short_in, found, cli_vars>>

\* the tokens given to the commands
CliTokens == {KW_ALL, TOK_reana, TOK_r_j_controller, KW_DOT, TOK_nonsense}

OptInputs == UNION {[1..k -> CliTokens] : k \in 0..MaxOpts}

PullRequests == {PR_72}

BranchInputs == UNION {[1..k -> CliTokens \X PullRequests] : k \in 0..MaxPairs}

Orders == [desc : BOOLEAN, shift : 0..MaxShift]

CliInit ==
    /\ pc = "cli:invoke"
    /\ cwd \in Dirs
    /\ start_dir = cwd
    /\ order \in Orders
    /\ command \in Commands
    /\ IF command = "git-checkout"
       THEN opt_component = <<>> /\ branch \in BranchInputs /\ fetch \in BOOLEAN
       ELSE opt_component \in OptInputs /\ branch = <<>> /\ fetch = FALSE
    /\ components = <<>>
    /\ idx = 0
    /\ output = EmptyBag
    /\ result = EmptyBag
    /\ raised = "None"
    /\ stdout = <<>>
    /\ name_in = <<>>
    /\ short_out = Ok(<<>>)
    /\ FindIdle
    /\ pair_idx = 0
    /\ todo = <<>>
    /\ comp_idx = 0
    /\ cmd_idx = 0
    /\ ran = <<>>

CliNext ==
    \/ InvokeTypeError
    \/ InvokeComponent
    \/ InvokeCheckout
    \/ SelectNext
    \/ CmdBegin
    \/ CmdRun
    \/ CmdDone
    \/ CheckoutSelect
    \/ CheckoutIndexError
    \/ CheckoutKnown
    \/ CheckoutUnknown
    \/ CheckoutAdvance
    \/ CheckoutDone

SpecCli == CliInit /\ [][CliNext]_vars

\* ----------------------------------------------------------------- claims

\* the tokens select_components knows: the group keywords, '.', the standard
\* names and their short names
Recognised(t) ==
    \/ t \in {KW_ALL, KW_CLUSTER, KW_DOT}
    \/ t \in Range(REPO_LIST_ALL)
    \/ \E n \in Range(REPO_LIST_ALL) : shorten_component_name(n).val = t

Elements(list) == BagToSet(list)

NoDuplicates(list) == \A x \in BagToSet(list) : CopiesIn(x, list) = 1

\* C1: select_components never raises, whatever the tokens; a token it does
\* not recognise leaves the set as it is and the loop goes on to the next
\* token, and the function returns only after the last token.
C1_SelectNeverRaises ==
    /\ [](pc # "raised" /\ raised = "None")
    /\ [](pc = "returned" => idx = Len(components) + 1)
    /\ [][pc = "select:loop" => idx' \in {idx, idx + 1}]_vars
    /\ [][(AtToken /\ ~Recognised(components[idx]))
            => (output' = output /\ pc' = "select:loop" /\ idx' = idx + 1)]_vars

\* an unknown token came first and a short name after it was still resolved
C1_Witness ==
    /\ pc = "returned"
    /\ components = <<TOK_nonsense, TOK_r_j_controller>>
    /\ result = SetToBag({TOK_rjc})

\* C2: every element of the returned list is an entry of REPO_LIST_ALL, or is
\* the basename of the working directory when '.' was among the tokens; no
\* element is in the list twice.
C2_ResultWithinAll ==
    pc = "returned" =>
        /\ \A x \in Elements(result) :
               \/ x \in Range(REPO_LIST_ALL)
               \/ x = basename(cwd) /\ KW_DOT \in Range(components)
        /\ NoDuplicates(result)

\* '.' in a directory that is no component, after ALL and a name given twice over
C2_Witness ==
    /\ pc = "returned"
    /\ components = <<KW_ALL, TOK_reana, KW_DOT>>
    /\ basename(cwd) \notin Range(REPO_LIST_ALL)
    /\ BagIn(basename(cwd), result)

\* C3: ['ALL'] gives exactly the entries of REPO_LIST_ALL and ['CLUSTER']
\* exactly the entries of REPO_LIST_CLUSTER.
C3_GroupKeywords ==
    pc = "returned" =>
        /\ components = <<KW_ALL>> =>
               Elements(result) = Range(REPO_LIST_ALL) /\ NoDuplicates(result)
        /\ components = <<KW_CLUSTER>> =>
               Elements(result) = Range(REPO_LIST_CLUSTER) /\ NoDuplicates(result)

C3_Witness ==
    /\ pc = "returned"
    /\ components = <<KW_CLUSTER>>
    /\ BagCardinality(result) = Len(REPO_LIST_CLUSTER)

\* C4: for every entry n of REPO_LIST_ALL, the short name of n alone and n
\* alone both select exactly {n}, and neither call raises.
C4_ShortNameSelectsSame ==
    \A n \in Range(REPO_LIST_ALL) :
        (components = <<n>> \/ components = <<shorten_component_name(n).val>>) =>
            /\ pc # "raised"
            /\ pc = "returned" => result = SetToBag({n})

\* a short name that differs from its standard name was given alone
C4_Witness ==
    /\ pc = "returned"
    /\ components = <<TOK_r_j_controller>>
    /\ result = SetToBag({TOK_rjc})

\* '[] Ignoring unknown component ' as written on the terminal
WARNING_HEAD ==
    <<"[", "]", " ", "I", "g", "n", "o", "r", "i", "n", "g", " ", "u", "n", "k", "n", "o", "w", "n", " ", "c", "o", "m", "p", "o", "n", "e", "n", "t", " ">>

\* the warnings due for the tokens of seq, in their order
WarningsFor(seq) ==
    LET unknown(t) == ~Recognised(t)
        bad == SelectSeq(seq, unknown)
    IN  [i \in 1..Len(bad) |-> WARNING_HEAD \o bad[i] \o <<".">>]

\* C5: the lines written are exactly one warning per occurrence of an
\* unrecognised token among the tokens processed so far, in the order of the
\* tokens, each '[] Ignoring unknown component <token>.'; a recognised token
\* writes nothing.
C5_WarningsInOrder ==
    /\ pc = "select:loop" => stdout = WarningsFor(SubSeq(components, 1, idx - 1))
    /\ pc = "returned" => stdout = WarningsFor(components)

\* two different unknown tokens around a known one
C5_Witness ==
    /\ pc = "returned"
    /\ components = <<TOK_cluster, TOK_reana, TOK_nonsense>>
    /\ Len(stdout) = 2
    /\ stdout[1] # stdout[2]

\* C6: REPO_LIST_CLUSTER is a subset of REPO_LIST_ALL, and a token sequence
\* with 'ALL' and without '.' gives exactly the entries of REPO_LIST_ALL, each
\* once, whatever else it holds.
C6_AllAbsorbs ==
    /\ Range(REPO_LIST_CLUSTER) \subseteq Range(REPO_LIST_ALL)
    /\ (pc = "returned" /\ KW_ALL \in Range(components) /\ KW_DOT \notin Range(components))
           => (Elements(result) = Range(REPO_LIST_ALL) /\ NoDuplicates(result))

C6_Witness ==
    /\ pc = "returned"
    /\ components = <<KW_ALL, KW_CLUSTER, TOK_reana>>
    /\ BagCardinality(result) = Len(REPO_LIST_ALL)

\* C7: the group keywords in lower case select the groups: ['cluster'] gives
\* the entries of REPO_LIST_CLUSTER and ['all'] the entries of REPO_LIST_ALL.
C7_LowerCaseKeywords ==
    pc = "returned" =>
        /\ components = <<TOK_cluster>> => Elements(result) = Range(REPO_LIST_CLUSTER)
        /\ components = <<TOK_all>> => Elements(result) = Range(REPO_LIST_ALL)

C9_ShortenTotal ==
    pc # "shorten:enter" => (pc = "returned" /\ short_out.exc = "None")

\* the positions of the hyphens of s
Hyphens(s) == {i \in 1..Len(s) : s[i] = "-"}

\* the position of the j-th hyphen of s, 0 for j = 0
NthHyphen(s, j) ==
    IF j = 0 THEN 0
    ELSE CHOOSE i \in Hyphens(s) : Cardinality({h \in Hyphens(s) : h <= i}) = j

\* no part between the hyphens of s is empty
PartsNonEmpty(s) ==
    /\ Len(s) > 0
    /\ s[1] # "-"
    /\ s[Len(s)] # "-"
    /\ \A i \in 1..(Len(s) - 1) : ~(s[i] = "-" /\ s[i + 1] = "-")

\* t is s with every part but the last cut to its first character
IsShortOf(t, s) ==
    LET k == Cardinality(Hyphens(s))
        last == NthHyphen(s, k)
    IN  /\ Len(t) = 2 * k + (Len(s) - last)
        /\ \A j \in 1..k : t[2 * j - 1] = s[NthHyphen(s, j - 1) + 1] /\ t[2 * j] = "-"
        /\ SubSeq(t, 2 * k + 1, Len(t)) = SubSeq(s, last + 1, Len(s))

\* C10: for a name whose parts are all non-empty, shorten_component_name
\* returns the first character of every part but the last, each followed by
\* a hyphen, and then the last part as it is; a name without a hyphen, ''
\* among them, is returned as it is, and 'reana-job-controller' gives
\* 'r-j-controller'.
C10_ShortenShape ==
    pc # "shorten:enter" =>
        /\ PartsNonEmpty(name_in) =>
               short_out.exc = "None" /\ IsShortOf(short_out.val, name_in)
        /\ Hyphens(name_in) = {} => short_out = Ok(name_in)
        /\ name_in = TOK_rjc => short_out = Ok(TOK_r_j_controller)

\* a name of three parts was shortened
C10_Witness ==
    /\ pc = "returned"
    /\ name_in = TOK_rjc
    /\ short_out.val = TOK_r_j_controller

\* C11: no two distinct entries of REPO_LIST_ALL have the same short name:
\* the short name returned for an entry is the short name of no other entry.
C11_ShortNamesInjective ==
    (pc = "returned" /\ name_in \in Range(REPO_LIST_ALL)) =>
        \A n \in Range(REPO_LIST_ALL) :
            n # name_in => shorten_component_name(n).val # short_out.val

\* an entry that shares the initials of its first parts with other entries
C11_Witness ==
    /\ pc = "returned"
    /\ name_in = REPO_LIST_ALL[21]
    /\ short_out.val # name_in
    /\ \E n \in Range(REPO_LIST_ALL) :
           n # name_in /\ SubSeq(shorten_component_name(n).val, 1, 4) = SubSeq(short_out.val, 1, 4)

\* 'r-server' and 'reana-server' as the tests write them
R_SERVER == <<"r", "-", "s", "e", "r", "v", "e", "r">>

REANA_SERVER == <<"r", "e", "a", "n", "a", "-", "s", "e", "r", "v", "e", "r">>

\* C12: find_standard_component_name given the short name of an entry n of
\* REPO_LIST_ALL returns n; 'r-server' gives 'reana-server', 'r-j-controller'
\* gives 'reana-job-controller' and 'reana' gives 'reana'.
C12_RoundTrip ==
    pc # "find:enter" =>
        /\ \A n \in Range(REPO_LIST_ALL) :
               short_in = shorten_component_name(n).val => found = Ok(n)
        /\ short_in = R_SERVER => found = Ok(REANA_SERVER)
        /\ short_in = TOK_r_j_controller => found = Ok(TOK_rjc)
        /\ short_in = TOK_reana => found = Ok(TOK_reana)

C12_Witness ==
    /\ pc = "returned"
    /\ short_in = R_SERVER
    /\ found.val = REANA_SERVER

\* how many entries of REPO_LIST_ALL have the short name t
Matches(t) ==
    Cardinality({i \in 1..Len(REPO_LIST_ALL) : shorten_component_name(REPO_LIST_ALL[i]).val = t})

\* C13: find_standard_component_name returns a name exactly when one entry
\* of REPO_LIST_ALL has the given short name, and that entry; with no entry
\* or several it raises, always the same kind of exception, and gives no name.
C13_FindOneOrFail ==
    pc # "find:enter" =>
        /\ found.exc = "None" <=> Matches(short_in) = 1
        /\ found.exc = "None" =>
               /\ found.val \in Range(REPO_LIST_ALL)
               /\ shorten_component_name(found.val).val = short_in
        /\ found.exc # "None" => (found.exc = "Exception" /\ found.val = <<>> /\ pc = "raised")

\* a standard name that is not its own short name is given: no entry matches
C13_Witness ==
    /\ pc = "raised"
    /\ short_in = TOK_rjc
    /\ Matches(short_in) = 0
    /\ found.exc = "Exception"

\* t occurs in s as a run of consecutive characters
Occurs(t, s) ==
    \E k \in 0..(Len(s) - Len(t)) : SubSeq(s, k + 1, k + Len(t)) = t

\* C14: the exception find_standard_component_name raises carries the short
\* name it was given: the argument occurs in the message.
C14_ErrorCarriesInput ==
    found.exc # "None" => Occurs(short_in, found.msg)

\* C15, first part: select_components of the empty sequence returns the
\* empty list and writes no warning.
C15_EmptySelection ==
    (command = "none" /\ pc = "returned" /\ components = <<>>) =>
        (result = EmptyBag /\ stdout = <<>>)

\* C15: a command that takes -c and is run without it passes ['CLUSTER'] to
\* select_components and works on exactly the entries of REPO_LIST_CLUSTER.
C15_DefaultIsCluster ==
    (command \in ComponentCommands /\ opt_component = <<>>) =>
        /\ pc # "raised"
        /\ pc \in {"select:enter", "select:loop", "returned"} => components = <<KW_CLUSTER>>
        /\ pc \in {"cmd:loop", "done", "exited"} => Range(todo) = Range(REPO_LIST_CLUSTER)
        /\ pc = "done" => {ran[i].component : i \in 1..Len(ran)} = Range(REPO_LIST_CLUSTER)

\* the commands of git-upgrade in the order claimed
UPGRADE_ORDER ==
    <<CMD_FETCH, CMD_CHECKOUT_MASTER, CMD_MERGE, CMD_PUSH, CMD_CHECKOUT_BACK>>

\* C16: only the last command issued can have failed, and when it has the
\* process has exited: nothing is issued after a command that returned a
\* status other than 0. git-upgrade issues fetch upstream, checkout master,
\* merge --ff-only, push origin master, checkout - in this order for one
\* component, all five before the first of the next component.
C16_SequentialExitOnFailure ==
    /\ \A i \in 1..(Len(ran) - 1) : ran[i].status = 0
    /\ (Len(ran) > 0 /\ ran[Len(ran)].status # 0) => pc = "exited"
    /\ pc = "exited" => (Len(ran) > 0 /\ ran[Len(ran)].status # 0)
    /\ command = "git-upgrade" =>
           \A i \in 1..Len(ran) :
               /\ ran[i].cmd = UPGRADE_ORDER[((i - 1) % 5) + 1]
               /\ ran[i].component = ran[i - ((i - 1) % 5)].component
               /\ \A j \in 1..(i - 1) :
                      ((j - 1) \div 5 # (i - 1) \div 5) => ran[j].component # ran[i].component

\* git-upgrade failed at the second command of its second component, with
\* more components to go
C16_Witness ==
    /\ command = "git-upgrade"
    /\ pc = "exited"
    /\ Len(ran) = 7
    /\ Len(todo) > 2

\* C17: git-checkout does not abort on a pair whose component token is not
\* recognised: no exception leaves it, and when it is done every such pair
\* was reported as ignored and no command was run for it.
C17_CheckoutSkipsUnknown ==
    command = "git-checkout" =>
        /\ pc # "raised"
        /\ pc = "done" =>
               \A i \in 1..Len(branch) :
                   ~Recognised(branch[i][1]) =>
                       \E k \in 1..Len(stdout) : Occurs(MSG_IGNORING_COMPONENT, stdout[k])

\* C18: in git-checkout, '.' selects the basename of the directory the
\* command was started in, in every pair.
C18_DotIsStartDirectory ==
    (command = "git-checkout" /\ pc = "returned" /\ components = <<KW_DOT>>) =>
        Elements(result) = {basename(start_dir)}

\* C19: git-push runs 'git push origin master' exactly once in the source
\* directory of each selected component, and nothing else.
C19_PushOncePerComponent ==
    command = "git-push" =>
        /\ pc # "raised"
        /\ pc = "done" =>
               /\ Len(ran) = Len(todo)
               /\ \A c \in Range(todo) :
                      Cardinality({i \in 1..Len(ran) :
                          ran[i] = [component |-> c, cmd |-> CMD_PUSH,
                                    dir |-> get_srcdir(c).val, status |-> 0]}) = 1

====
